---- MODULE Spec2Model ----
(***************************************************************************)
(* Model of mezzanine/pages/models.py: the page tree (Page.save,           *)
(* Page.get_ascendants, Page.set_slug, Page.set_parent, Page.overridden)   *)
(* and the moderation mixin (Moderated.send_pending_email,                 *)
(* Moderated.current_status).                                              *)
(*                                                                         *)
(* Text (slugs, titles, e-mail addresses) is a sequence of one-character   *)
(* strings, so that startswith, slicing, replace, strip and join are       *)
(* computed the way Python computes them.                                  *)
(***************************************************************************)
EXTENDS Integers, Sequences, FiniteSets, TLC

VARIABLES
    parent,         \* Page.parent, per stored page: a page id or None
    slug,           \* Displayable.slug, per stored page
    title,          \* Displayable.title, per stored page
    titles,         \* Page.titles, per stored page
    urlpatterns,    \* slugs that have an explicit urlpattern (urlconf)
    last,           \* the last call on a Page: its arguments, locals, outcome
    inst,           \* the Page instance held by a caller of get_ascendants
    moderated,      \* the fields of one Moderated object, and the clock
    users,          \* auth: per user, its groups and its email
    outbox,         \* the send_mail calls made so far
    result          \* the value returned by the last Moderated call

vars == <<parent, slug, title, titles, urlpatterns, last, inst,
          moderated, users, outbox, result>>

pageVars == <<parent, slug, title, titles, urlpatterns, last>>
moderatedVars == <<moderated, users, outbox, result>>

-----------------------------------------------------------------------------
(* Bounds *)

NPages == 3
MaxSlugLen == 5
MaxCalls == 1
MaxAscendantCalls == 2
NUsers == 3
MaxTime == 2
MaxMails == 1

None == 0
Pages == 1..NPages

-----------------------------------------------------------------------------
(* Text helpers: Python's str operations on sequences of characters *)

\* s.startswith(p)
startswith(s, p) ==
    /\ Len(p) <= Len(s)
    /\ SubSeq(s, 1, Len(p)) = p

\* s[n:]
slice_from(s, n) == SubSeq(s, n + 1, Len(s))

\* s.find(old): the 0-based index of the first occurrence, -1 when absent
find(s, old) ==
    LET hits == {i \in 0..(Len(s) - Len(old)) :
                    SubSeq(s, i + 1, i + Len(old)) = old}
    IN  IF hits = {} THEN -1
        ELSE CHOOSE i \in hits : \A j \in hits : i <= j

\* s.replace(old, new, 1)
replace_first(s, old, new) ==
    LET i == find(s, old)
    IN  IF i = -1 THEN s
        ELSE SubSeq(s, 1, i) \o new \o slice_from(s, i + Len(old))

RECURSIVE lstrip(_, _)
lstrip(s, c) ==
    IF s # <<>> /\ Head(s) = c THEN lstrip(Tail(s), c) ELSE s

RECURSIVE rstrip(_, _)
rstrip(s, c) ==
    IF s # <<>> /\ s[Len(s)] = c
    THEN rstrip(SubSeq(s, 1, Len(s) - 1), c) ELSE s

\* s.strip(c)
strip(s, c) == rstrip(lstrip(s, c), c)

\* sep.join(parts)
RECURSIVE join(_, _)
join(sep, parts) ==
    IF parts = <<>> THEN <<>>
    ELSE IF Len(parts) = 1 THEN parts[1]
    ELSE parts[1] \o sep \o join(sep, Tail(parts))

\* "%s/%s" % (a, b)
slash(a, b) == a \o <<"/">> \o b

-----------------------------------------------------------------------------
(* Page *)

\* save_loop with titles.append(parent.title) in place of insert(0, ...)
RECURSIVE save_loop_append(_, _, _, _, _)
save_loop_append(par, ttl, acc, p, fuel) ==
    IF p = None \/ fuel = 0 THEN acc
    ELSE save_loop_append(par, ttl, acc \o <<ttl[p]>>, par[p], fuel - 1)

\* Page.save: the titles up the parent chain, joined by " / ".
\* The loop of lines 83-85; fuel bounds the walk by the number of pages.
RECURSIVE save_loop(_, _, _, _, _)
save_loop(par, ttl, acc, p, fuel) ==
    IF p = None \/ fuel = 0 THEN acc
    ELSE save_loop(par, ttl, <<ttl[p]>> \o acc, par[p], fuel - 1)

save_titles(par, ttl, p) ==
    join(<<" ", "/", " ">>,
         save_loop(par, ttl, <<ttl[p]>>, par[p], NPages))

\* Page.overridden: the page's slug has an explicitly defined urlpattern
overridden(s) == s \in urlpatterns

\* Page.objects.filter(slug__startswith=s)
slug__startswith(slg, s) == {q \in Pages : startswith(slg[q], s)}

\* The pages Page.set_slug rewrites: the filtered pages not overridden
set_slug_pages(slg, s) ==
    {q \in slug__startswith(slg, s) : ~overridden(slg[q])}

\* set_slug_value slicing at len(new_slug) in place of len(self.slug)
set_slug_value_new_len(page_slug, s, new_slug) ==
    new_slug \o slice_from(page_slug, Len(new_slug))

\* page.slug = new_slug + page.slug[len(self.slug):]
set_slug_value(page_slug, s, new_slug) ==
    new_slug \o slice_from(page_slug, Len(s))

\* The stored slugs after Page.set_slug on an instance whose slug is s
set_slug_slugs(slg, s, new_slug) ==
    [q \in Pages |->
        IF q \in set_slug_pages(slg, s)
        THEN set_slug_value(slg[q], s, new_slug)
        ELSE slg[q]]

\* The stored titles after Page.set_slug: every rewritten page is saved
set_slug_titles(par, ttl, tts, slg, s) ==
    [q \in Pages |->
        IF q \in set_slug_pages(slg, s)
        THEN save_titles(par, ttl, q)
        ELSE tts[q]]

\* Page.set_parent, lines 178-184: the walk from new_parent up to the root
\* meets self. fuel bounds the walk by the number of pages.
RECURSIVE cycle_check(_, _, _, _)
cycle_check(par, self, p, fuel) ==
    IF p = None \/ fuel = 0 THEN FALSE
    ELSE IF p = self THEN TRUE
    ELSE cycle_check(par, self, par[p], fuel - 1)

\* causes_cycle comparing new_parent alone, without the walk
causes_cycle_no_walk(par, self, new_parent) == new_parent = self

\* causes_cycle starting the walk at new_parent's parent
causes_cycle_skip_first(par, self, new_parent) ==
    IF new_parent = None THEN FALSE
    ELSE cycle_check(par, self, par[new_parent], NPages)

causes_cycle(par, self, new_parent) ==
    cycle_check(par, self, new_parent, NPages)

\* Page.set_parent, lines 189-195: the slug handed to set_slug, or
\* <<FALSE>> when set_slug is not called
set_parent_new_slug(self_slug, old_parent_slug, new_parent_slug) ==
    IF self_slug = <<>> THEN <<FALSE>>
    ELSE IF old_parent_slug = <<>>
         THEN <<TRUE, join(<<"/">>, <<new_parent_slug, self_slug>>)>>
    ELSE IF startswith(self_slug, old_parent_slug)
         THEN <<TRUE, strip(replace_first(self_slug, old_parent_slug,
                                          new_parent_slug), "/")>>
    ELSE <<FALSE>>

NoCall ==
    [op |-> "none", self |-> None, new_parent |-> None, new_slug |-> <<>>,
     raised |-> FALSE, self_slug |-> <<>>, old_parent |-> None,
     old_parent_slug |-> <<>>, new_parent_slug |-> <<>>, slug |-> <<>>,
     calls |-> 0]

\* The record of a call made after the one recorded in last
Call(op, P) ==
    [NoCall EXCEPT !.op = op, !.self = P, !.calls = last.calls + 1]

\* Page.save() on a freshly loaded page P
Save(P) ==
    /\ titles' = [titles EXCEPT ![P] = save_titles(parent, title, P)]
    /\ last' = [Call("save", P) EXCEPT !.self_slug = slug[P],
                                       !.slug = slug[P]]
    /\ UNCHANGED <<parent, slug, title, urlpatterns>>

\* P.set_slug(new_slug) on a freshly loaded page P
SetSlug(P, new_slug) ==
    LET s == slug[P]
        slugs == set_slug_slugs(slug, s, new_slug)
    IN  /\ \A q \in Pages : Len(slugs[q]) <= MaxSlugLen
        /\ slug' = slugs
        /\ titles' = set_slug_titles(parent, title, titles, slug, s)
        /\ last' = [Call("set_slug", P) EXCEPT !.new_slug = new_slug,
                                               !.self_slug = s,
                                               !.slug = new_slug]
        /\ UNCHANGED <<parent, title, urlpatterns>>

\* P.set_parent(new_parent) on freshly loaded pages P and new_parent
SetParent(P, new_parent) ==
    LET self_slug == slug[P]
        old_parent_slug == IF parent[P] # None THEN slug[parent[P]] ELSE <<>>
        new_parent_slug == IF new_parent # None THEN slug[new_parent] ELSE <<>>
        call == [Call("set_parent", P) EXCEPT
                               !.new_parent = new_parent,
                               !.self_slug = self_slug,
                               !.old_parent = parent[P],
                               !.old_parent_slug = old_parent_slug,
                               !.new_parent_slug = new_parent_slug,
                               !.slug = self_slug]
        \* self.parent = new_parent; self.save()
        par1 == [parent EXCEPT ![P] = new_parent]
        tts1 == [titles EXCEPT ![P] = save_titles(par1, title, P)]
        new == set_parent_new_slug(self_slug, old_parent_slug,
                                   new_parent_slug)
    IN  IF causes_cycle(parent, P, new_parent)
        THEN /\ last' = [call EXCEPT !.raised = TRUE]
             /\ UNCHANGED <<parent, slug, title, titles, urlpatterns>>
        ELSE IF new[1]
        THEN LET slugs == set_slug_slugs(slug, self_slug, new[2])
             IN  /\ \A q \in Pages : Len(slugs[q]) <= MaxSlugLen
                 /\ parent' = par1
                 /\ slug' = slugs
                 /\ titles' = set_slug_titles(par1, title, tts1, slug,
                                              self_slug)
                 /\ last' = [call EXCEPT !.new_slug = new[2],
                                         !.slug = new[2]]
                 /\ UNCHANGED <<title, urlpatterns>>
        ELSE /\ parent' = par1
             /\ titles' = tts1
             /\ last' = call
             /\ UNCHANGED <<slug, title, urlpatterns>>

-----------------------------------------------------------------------------
(* The stored pages a run starts from *)

\* The titles the stored pages were given
initial_title(p) == IF p % 3 = 1 THEN <<"a">> ELSE <<"B">>

\* slugify on the characters of Titles: lower-cases
slugify(t) == [i \in 1..Len(t) |-> IF t[i] = "B" THEN "b" ELSE t[i]]

\* Page.get_slug: the slug built from the parent's slug and the title
get_slug(page_title, has_parent, parent_slug) ==
    IF has_parent THEN slash(parent_slug, slugify(page_title))
    ELSE slugify(page_title)

\* A slug an editor typed in place of the built one
CustomSlug == <<"a", "b">>

\* Slugs with an explicit urlpattern in the project's urlconf
ExplicitSlugs == {<<"b", "/", "b">>}

\* Slugs handed to set_slug by a caller
NewSlugs == {<<"a">>, <<"b">>, <<"b", "/", "a">>}

RECURSIVE up(_, _, _)
\* The pages met by following parent pointers from p, at most n steps
up(par, p, n) ==
    IF n = 0 \/ par[p] = None THEN {}
    ELSE {par[p]} \cup up(par, par[p], n - 1)

Acyclic(par) == \A p \in Pages : p \notin up(par, p, NPages)

\* The slug a stored page starts with: built by get_slug when it was first
\* saved, typed by an editor, or left empty
RECURSIVE initial_slug(_, _, _, _)
initial_slug(par, ttl, kind, p) ==
    IF kind[p] = "empty" THEN <<>>
    ELSE IF kind[p] = "custom" THEN CustomSlug
    ELSE get_slug(ttl[p], par[p] # None,
                  IF par[p] # None
                  THEN initial_slug(par, ttl, kind, par[p]) ELSE <<>>)

NoInstance == [page |-> None, has_ascendants |-> FALSE, _ascendants |-> <<>>,
               lookup |-> "none", returned |-> <<>>, calls |-> 0]

NoModerated == [status |-> None, approval |-> None, publish_date |-> 0,
                now |-> 0, owning_group |-> "None"]

NoResult == [op |-> "none", value |-> <<>>]

InitTree(kinds) ==
    /\ parent \in {par \in [Pages -> Pages \cup {None}] : Acyclic(par)}
    /\ title = [p \in Pages |-> initial_title(p)]
    /\ \E kind \in [Pages -> kinds \cup {"built"}] :
          /\ Cardinality({p \in Pages : kind[p] # "built"}) <= 1
          /\ slug = [p \in Pages |-> initial_slug(parent, title, kind, p)]
    /\ \A p \in Pages : Len(slug[p]) <= MaxSlugLen
    /\ titles = [p \in Pages |-> save_titles(parent, title, p)]
    /\ urlpatterns = ExplicitSlugs
    /\ last = NoCall

Init ==
    /\ InitTree({"custom"})
    /\ inst = NoInstance
    /\ moderated = NoModerated
    /\ users = <<>>
    /\ outbox = <<>>
    /\ result = NoResult

DoSave ==
    /\ last.calls < MaxCalls
    /\ \E P \in Pages : Save(P)
    /\ UNCHANGED <<inst, moderatedVars>>

DoSetSlug ==
    /\ last.calls < MaxCalls
    /\ \E P \in Pages, new_slug \in NewSlugs : SetSlug(P, new_slug)
    /\ UNCHANGED <<inst, moderatedVars>>

DoSetParent ==
    /\ last.calls < MaxCalls
    /\ \E P \in Pages, new_parent \in Pages \cup {None} :
          SetParent(P, new_parent)
    /\ UNCHANGED <<inst, moderatedVars>>

Next == DoSave \/ DoSetSlug \/ DoSetParent

Spec == Init /\ [][Next]_vars

-----------------------------------------------------------------------------
(* Page.get_ascendants on an instance a caller holds *)

\* Page.objects.with_ascendants_for_slug(slug)[0]._ascendants: the parents
\* when the single query retrieved them all, [] when it failed to
\* get_ascendants appending in the walk whatever _ascendants holds
needs_walk_always(_ascendants) == TRUE

\* Line 124: if not self._ascendants
needs_walk(_ascendants) == _ascendants = <<>>

\* Lines 128-131: the parents appended from child up to the root.
\* fuel bounds the walk by the number of pages.
RECURSIVE ascend_loop(_, _, _, _)
ascend_loop(par, _ascendants, child, fuel) ==
    IF par[child] = None \/ fuel = 0 THEN _ascendants
    ELSE ascend_loop(par, _ascendants \o <<par[child]>>, par[child],
                     fuel - 1)

\* Page.objects.with_ascendants_for_slug(slug)[0]._ascendants: the parents
\* when the single query retrieved them all, [] when it failed to
with_ascendants_for_slug(par, p) ==
    {<<>>, ascend_loop(par, <<>>, p, NPages)}

\* Page.objects.get(pk=p): a new instance, without _ascendants
Load(p) ==
    /\ inst' = [NoInstance EXCEPT !.page = p]
    /\ UNCHANGED <<pageVars, moderatedVars>>

\* inst.get_ascendants() returning looked_up from the single query, when
\* the query is run
GetAscendants(looked_up) ==
    LET p == inst.page
        cached == IF inst.has_ascendants THEN inst._ascendants
                  ELSE IF slug[p] # <<>> THEN looked_up
                  ELSE <<>>
        lookup == IF inst.has_ascendants THEN inst.lookup
                  ELSE IF slug[p] = <<>> THEN "empty slug"
                  ELSE IF looked_up = <<>> THEN "failed"
                  ELSE "found"
        walked == IF needs_walk(cached)
                  THEN ascend_loop(parent, cached, p, NPages)
                  ELSE cached
    IN  /\ p # None
        /\ inst.calls < MaxAscendantCalls
        /\ IF parent[p] = None
           THEN inst' = [inst EXCEPT !.returned = <<>>,
                                     !.calls = inst.calls + 1]
           ELSE inst' = [inst EXCEPT !.has_ascendants = TRUE,
                                     !._ascendants = walked,
                                     !.lookup = lookup,
                                     !.returned = walked,
                                     !.calls = inst.calls + 1]
        /\ UNCHANGED <<pageVars, moderatedVars>>

DoLoad == \E p \in Pages : Load(p)

DoGetAscendants ==
    \E looked_up \in
        (IF inst.page # None /\ parent[inst.page] # None
         THEN with_ascendants_for_slug(parent, inst.page) ELSE {<<>>}) :
        GetAscendants(looked_up)

InitAscendants ==
    /\ InitTree({"custom", "empty"})
    /\ inst = NoInstance
    /\ moderated = NoModerated
    /\ users = <<>>
    /\ outbox = <<>>
    /\ result = NoResult

NextAscendants == DoLoad \/ DoGetAscendants

SpecAscendants == InitAscendants /\ [][NextAscendants]_vars

\* C6: get_ascendants returns [] for a page with no parent; for a page with
\* a parent whose ascendants the single-query lookup did not find (or whose
\* slug is empty), every call on the instance, a repeated one included,
\* returns the page's ancestors, the parent first and the root last, each
\* exactly once.
C6_Ascendants ==
    (inst.page # None /\ inst.calls >= 1) =>
        LET p == inst.page
            r == inst.returned
        IN  /\ parent[p] = None => r = <<>>
            /\ (parent[p] # None /\ inst.lookup \in {"failed", "empty slug"})
               => /\ r # <<>>
                  /\ r[1] = parent[p]
                  /\ \A i \in 1..(Len(r) - 1) : r[i + 1] = parent[r[i]]
                  /\ parent[r[Len(r)]] = None
                  /\ \A i, j \in 1..Len(r) : r[i] = r[j] => i = j
                  /\ {r[i] : i \in 1..Len(r)} = up(parent, p, NPages)

\* C6 happens: a repeated call, after a failed lookup, on a page with a
\* parent and a grandparent
C6_Witness ==
    /\ inst.page # None
    /\ inst.calls >= 2
    /\ inst.lookup = "failed"
    /\ Len(inst.returned) >= 2

-----------------------------------------------------------------------------
(* Moderated *)

CONTENT_STATUS_DRAFT == 1

PENDING == 1
APPROVED == 2
REJECTED == 3

Users == 1..NUsers

\* Group names; an owning group is none of "Author" and "Publisher"
Groups == {"Publisher", "Editors"}
OwningGroups == {"Editors"}

\* The address of user u: two users may share one
user_email(u) == IF u % 2 = 1 THEN "odd@example.com" ELSE "even@example.com"

\* current_status without the REJECTED branch
current_status_no_rejected(m) ==
    IF m.status = CONTENT_STATUS_DRAFT
    THEN IF m.approval = PENDING THEN <<"pending", "Pending approval">>
         ELSE <<"draft", "Draft">>
    ELSE IF m.publish_date < m.now
         THEN <<"published", "Approved, published on">>
         ELSE <<"approved", "Approved, to be published on">>

\* Moderated.current_status: the key and the label (without the date)
current_status(m) ==
    IF m.status = CONTENT_STATUS_DRAFT
    THEN IF m.approval = PENDING THEN <<"pending", "Pending approval">>
         ELSE IF m.approval = REJECTED THEN <<"rejected", "Rejected">>
         ELSE <<"draft", "Draft">>
    ELSE IF m.publish_date < m.now
         THEN <<"published", "Approved, published on">>
         ELSE <<"approved", "Approved, to be published on">>

\* User.objects.filter(groups__name="Publisher")
filter_q(usr, us) == {u \in us : "Publisher" \in usr[u].groups}

\* User.objects.filter(groups=owning_group)
filter_groups(usr, group) == {u \in Users : group \in usr[u].groups}

\* owning_publishers without the .filter(q) of line 307
owning_publishers_unfiltered(usr, owning_group) ==
    filter_groups(usr, owning_group)

\* Lines 306-307: the users in the owning group that are publishers
owning_publishers(usr, owning_group) ==
    filter_q(usr, filter_groups(usr, owning_group))

\* Lines 303-308: publishers
publishers_for(usr, owning_group) ==
    LET publishers == IF owning_group # "None"
                      THEN owning_publishers(usr, owning_group)
                      ELSE {}
    IN  IF publishers # {} THEN publishers ELSE filter_q(usr, Users)

\* values_list("email", flat=True): one address per user, by primary key
RECURSIVE values_list_email(_, _, _)
values_list_email(usr, us, u) ==
    IF u > NUsers THEN <<>>
    ELSE (IF u \in us THEN <<usr[u].email>> ELSE <<>>)
         \o values_list_email(usr, us, u + 1)

\* .distinct(): every value once
RECURSIVE distinct(_)
distinct(values) ==
    IF values = <<>> THEN <<>>
    ELSE LET rest == distinct(SubSeq(values, 1, Len(values) - 1))
             v == values[Len(values)]
         IN  IF \E i \in 1..Len(rest) : rest[i] = v THEN rest
             ELSE Append(rest, v)

\* obj.current_status
CurrentStatus ==
    /\ result' = [op |-> "current_status", value |-> current_status(moderated)]
    /\ UNCHANGED <<pageVars, inst, moderated, users, outbox>>

\* obj.send_pending_email()
SendPendingEmail ==
    LET publishers == publishers_for(users, moderated.owning_group)
        to == distinct(values_list_email(users, publishers, 1))
    IN  /\ Len(outbox) < MaxMails
        /\ outbox' = Append(outbox, [subject |-> "Draft needs moderation",
                                     to |-> to])
        /\ result' = [op |-> "send_pending_email", value |-> publishers]
        /\ UNCHANGED <<pageVars, inst, moderated, users>>

InitModerated ==
    /\ parent = [p \in Pages |-> None]
    /\ title = [p \in Pages |-> initial_title(p)]
    /\ slug = [p \in Pages |-> slugify(title[p])]
    /\ titles = title
    /\ urlpatterns = ExplicitSlugs
    /\ last = NoCall
    /\ inst = NoInstance
    /\ moderated \in [status : {CONTENT_STATUS_DRAFT, CONTENT_STATUS_DRAFT + 1},
                      approval : {None, PENDING, APPROVED, REJECTED},
                      publish_date : 0..MaxTime,
                      now : 0..MaxTime,
                      owning_group : OwningGroups \cup {"None"}]
    /\ \E groups \in [Users -> SUBSET Groups] :
          users = [u \in Users |->
                      [groups |-> groups[u], email |-> user_email(u)]]
    /\ outbox = <<>>
    /\ result = NoResult

NextModerated == CurrentStatus \/ SendPendingEmail

SpecModerated == InitModerated /\ [][NextModerated]_vars

\* C7: current_status returns one of five keys: for a draft, "pending" when
\* approval is PENDING, "rejected" when REJECTED, "draft" otherwise; for any
\* other status, "published" when publish_date is before now and "approved"
\* otherwise, whatever the approval.
C7_CurrentStatus ==
    result.op = "current_status" =>
        LET key == result.value[1]
            m == moderated
        IN  /\ key \in {"pending", "rejected", "draft", "published",
                        "approved"}
            /\ (m.status = CONTENT_STATUS_DRAFT /\ m.approval = PENDING)
               <=> key = "pending"
            /\ (m.status = CONTENT_STATUS_DRAFT /\ m.approval = REJECTED)
               <=> key = "rejected"
            /\ (m.status = CONTENT_STATUS_DRAFT
                /\ m.approval \in {APPROVED, None})
               <=> key = "draft"
            /\ (m.status # CONTENT_STATUS_DRAFT /\ m.publish_date < m.now)
               <=> key = "published"
            /\ (m.status # CONTENT_STATUS_DRAFT /\ m.publish_date >= m.now)
               <=> key = "approved"

\* C7 happens: a rejected draft was asked its status
C7_Witness ==
    /\ result.op = "current_status"
    /\ moderated.status = CONTENT_STATUS_DRAFT
    /\ moderated.approval = REJECTED
    /\ result.value[1] = "rejected"

\* C8: send_pending_email sends one mail to members of "Publisher": to the
\* publishers in the owning group when there is an owning group with a
\* publisher in it, to all publishers otherwise; each address at most once;
\* the users returned are the users the mail is addressed to.
C8_PendingEmail ==
    [][result'.op = "send_pending_email" =>
        LET all == {u \in Users : "Publisher" \in users[u].groups}
            own == {u \in all : moderated.owning_group \in users[u].groups}
            want == IF moderated.owning_group # "None" /\ own # {}
                    THEN own ELSE all
            to == outbox'[Len(outbox')].to
        IN  /\ Len(outbox') = Len(outbox) + 1
            /\ SubSeq(outbox', 1, Len(outbox)) = outbox
            /\ {to[i] : i \in 1..Len(to)} = {users[u].email : u \in want}
            /\ \A i, j \in 1..Len(to) : to[i] = to[j] => i = j
            /\ result'.value = want
            /\ result'.value \subseteq all]_vars

\* C8 happens: the owning group holds a publisher and a user who is not one,
\* a publisher is outside it, and the mail went to the owning publishers
C8_Witness ==
    /\ result.op = "send_pending_email"
    /\ moderated.owning_group # "None"
    /\ \E u, v, w \in Users :
          /\ u \in result.value
          /\ moderated.owning_group \in users[v].groups
          /\ "Publisher" \notin users[v].groups
          /\ "Publisher" \in users[w].groups
          /\ w \notin result.value
    /\ outbox # <<>>
    /\ Len(outbox[Len(outbox)].to) = Cardinality(result.value)

-----------------------------------------------------------------------------
(* Properties of the page tree *)

\* The pages below P: those from which P is met by following parent pointers
Descendants(par, P) == {q \in Pages : P \in up(par, q, NPages)}

\* A slug segment: non-empty, without "/"
IsSegment(s) == s # <<>> /\ \A i \in 1..Len(s) : s[i] # "/"

\* C1: P.set_parent(new_parent) with new_parent P itself or a descendant of
\* P raises AttributeError and leaves every stored parent and slug unchanged.
C1_CycleRaises ==
    [][(/\ last'.op = "set_parent"
        /\ \/ last'.new_parent = last'.self
           \/ last'.new_parent \in Descendants(parent, last'.self))
       => (last'.raised /\ parent' = parent /\ slug' = slug)]_vars

\* C1 happens: a set_parent onto a proper descendant has raised
C1_Witness ==
    /\ last.op = "set_parent"
    /\ last.raised
    /\ last.new_parent \in Descendants(parent, last.self)
    /\ last.new_parent # last.self

\* C2: the stored parent relation stays acyclic: no page is met by following
\* parent pointers from itself.
C2_ParentAcyclic == \A p \in Pages : p \notin up(parent, p, NPages)

\* C2 happens: a set_parent gave a page with children a new parent page
C2_Witness ==
    /\ last.op = "set_parent"
    /\ ~last.raised
    /\ last.new_parent # None
    /\ last.new_parent # last.old_parent
    /\ parent[last.self] = last.new_parent
    /\ Descendants(parent, last.self) # {}

\* C3: after a successful P.set_parent(N) on a page whose non-empty slug was
\* built from its old parent (old parent slug + "/" + segment, or the segment
\* alone without a parent), P's slug is N.slug + "/" + segment when N is a
\* page and the segment alone when N is None.
C3_SlugMatchesNewParent ==
    (last.op = "set_parent" /\ ~last.raised /\ last.self_slug # <<>>) =>
        \A seg \in {SubSeq(last.self_slug, i, Len(last.self_slug)) :
                      i \in 1..Len(last.self_slug)} :
            (/\ IsSegment(seg)
             /\ last.self_slug = (IF last.old_parent = None THEN seg
                                  ELSE slash(last.old_parent_slug, seg)))
            => last.slug = (IF last.new_parent = None THEN seg
                            ELSE slash(last.new_parent_slug, seg))

\* C4 as claimed: P.set_slug(new_slug) on a page with slug s sets P's slug to
\* new_slug, rewrites every other stored page whose slug starts with s and
\* is not overridden to new_slug + its old slug without the prefix s, and
\* afterwards no non-overridden stored page has a slug that starts with s
\* unless new_slug starts with s.
C4_SetSlugAsClaimed ==
    [][last'.op = "set_slug" =>
        LET P == last'.self
            s == slug[P]
            new_slug == last'.new_slug
        IN  /\ last'.slug = new_slug
            /\ \A q \in Pages \ {P} :
                  (startswith(slug[q], s) /\ ~overridden(slug[q]))
                  => slug'[q] = new_slug \o SubSeq(slug[q], Len(s) + 1,
                                                   Len(slug[q]))
            /\ \A q \in Pages :
                  (~overridden(slug'[q]) /\ startswith(slug'[q], s))
                  => startswith(new_slug, s)]_vars

\* C4, amended: as claimed, but afterwards no non-overridden stored page has
\* a slug that starts with s unless new_slug starts with s or s starts with
\* new_slug; and P's stored slug is new_slug when P is not overridden.
C4_SetSlug ==
    [][last'.op = "set_slug" =>
        LET P == last'.self
            s == slug[P]
            new_slug == last'.new_slug
        IN  /\ last'.slug = new_slug
            /\ ~overridden(s) => slug'[P] = new_slug
            /\ \A q \in Pages \ {P} :
                  (startswith(slug[q], s) /\ ~overridden(slug[q]))
                  => slug'[q] = new_slug \o SubSeq(slug[q], Len(s) + 1,
                                                   Len(slug[q]))
            /\ \A q \in Pages :
                  (~overridden(slug'[q]) /\ startswith(slug'[q], s))
                  => (startswith(new_slug, s) \/ startswith(s, new_slug))]_vars

\* C4 happens: a set_slug to a different slug moved a descendant's slug
\* under the new slug and kept an overridden page that starts with the old
C4_Witness ==
    /\ last.op = "set_slug"
    /\ ~startswith(last.new_slug, last.self_slug)
    /\ \E q \in Descendants(parent, last.self) :
          /\ startswith(slug[q], last.new_slug)
          /\ slug[q] # last.new_slug
          /\ ~startswith(slug[q], last.self_slug)
    /\ \E r \in Pages \ {last.self} :
          /\ overridden(slug[r])
          /\ startswith(slug[r], last.self_slug)

\* The titles from the root down to p, joined by " / "
RECURSIVE titles_down(_, _, _, _)
titles_down(par, ttl, p, fuel) ==
    IF par[p] = None \/ fuel = 0 THEN ttl[p]
    ELSE titles_down(par, ttl, par[p], fuel - 1) \o <<" ", "/", " ">>
         \o ttl[p]

\* C5: Page.save() sets titles to the titles of the page's ancestors from
\* the root down to its parent, then its own title, joined by " / "; for a
\* page without a parent, to its own title.
C5_SaveTitles ==
    ((last.op = "save") \/ (last.op = "set_parent" /\ ~last.raised)) =>
        /\ titles[last.self] = titles_down(parent, title, last.self, NPages)
        /\ parent[last.self] = None => titles[last.self] = title[last.self]

\* C5 happens: a page with a parent and a grandparent was saved
C5_Witness ==
    /\ last.op = "save"
    /\ parent[last.self] # None
    /\ parent[parent[last.self]] # None
    /\ title[parent[last.self]] # title[parent[parent[last.self]]]

\* C9: P.set_slug(new_slug) and a successful P.set_parent(N) leave unchanged
\* the slug of every stored page that is neither P nor a descendant of P.
C9_OtherSlugsUnchanged ==
    [][(last'.op \in {"set_slug", "set_parent"} /\ ~last'.raised) =>
        \A q \in Pages :
            (q # last'.self /\ q \notin Descendants(parent, last'.self))
            => slug'[q] = slug[q]]_vars

====
